---- MODULE Spec2Model ----
(***************************************************************************)
(* music-downloader: resolution of catalogue tracks into audio files       *)
(* through a preferred and a backup source.                                *)
(*                                                                         *)
(* The repository holds three generations of the same program; `version'   *)
(* selects the one a behaviour runs:                                       *)
(*   "rip"    build/lib/build/lib/src/downloader.py (one rip() call per    *)
(*            source, confidence checked by the caller)                    *)
(*   "client" build/lib/src/downloader.py (a client per source and track:  *)
(*            login, search, exact match, resolve and rip)                 *)
(*   "core"   src/core.py (one shared Deezer client for the whole batch)   *)
(*                                                                         *)
(* Spec is the batch program. SpecCatalogue is the playlist lookup with    *)
(* its paging (get_tracks_from_spotify, get_spotify_tracks), SpecGui the   *)
(* window of src/gui.py with its download threads; each leaves the other   *)
(* parts at rest.                                                          *)
(***************************************************************************)
EXTENDS Naturals, Sequences, FiniteSets, TLC

VARIABLES
    version,          \* the generation of the program that runs
    tracks,           \* tracks_to_download / tracks, fixed for the batch
    qobuzCreds,       \* config.session.qobuz credentials present
    is_playlist,      \* core: the link was a playlist
    run,              \* "first" | "second" run against the same directory
    pc,               \* position of the program
    i,                \* index of the track the loop is at (1-based)
    src,              \* index of the source the resolver is trying
    downloaded_path,  \* download_track's local: None or a path
    results,          \* the search_result_list of the current attempt
    srcOutcome,       \* per source, how the current track ended on it
    calls,            \* history: external calls made for the current track
    successes,        \* successfully_downloaded_paths
    successful_downloads,  \* core's counters
    failed_downloads,
    outcomes,         \* history: terminal outcome of each finished track
    succeededFirst,   \* history: indexes of the tracks the first run fetched
    loginFailed,      \* history: sources whose login failed in this run
    disk,             \* files present in the output directory
    ripResult,        \* rip: per source, the RipResult of the current track
    playlist,         \* lines of the playlist file, NoFile when absent
    m3uWritten,       \* history: the playlist file was opened for writing in this run
    spotifyCreds,     \* the catalogue credentials: "ok" | "missing" | "invalid"
    exit_code,        \* the process's exit status, "running" until it ends
    fatal,            \* history: what ended the run before its loop
    logins,           \* history: per source, the login() calls of this run
    session,          \* the session of the client at hand: "none" | "open" | "closed"
    pending,          \* the search result handed to PendingAlbum / PendingTrack
    pItems,           \* catalogue: the playlist's items as the server holds them
    pResults,         \* catalogue: results, the page last received
    pOffset,          \* catalogue: offset of get_tracks_from_spotify
    pTracks,          \* catalogue: tracks_info / tracks, the list being built
    ppc,              \* catalogue: position of the playlist lookup
    gThreads,         \* gui: the DownloadThreads created so far
    current_thread,   \* gui: index of current_thread, 0 for None
    result_text       \* gui: what the result box shows

mainVars == <<version, tracks, qobuzCreds, is_playlist, run, pc, i, src,
              downloaded_path, results, srcOutcome, calls, successes,
              successful_downloads, failed_downloads, outcomes, succeededFirst,
              loginFailed, disk, ripResult, playlist, m3uWritten, spotifyCreds,
              exit_code, fatal, logins, session, pending>>

catalogueVars == <<pItems, pResults, pOffset, pTracks, ppc>>

guiVars == <<gThreads, current_thread, result_text>>

vars == <<mainVars, catalogueVars, guiVars>>

\* Python's None, for an id and for a path.
None == "None"
NoPath == [track |-> <<>>, src |-> "None"]

\* ------------------------------------------------------------ bounds
MaxTracks == 2

\* ------------------------------------------------------- configuration
PREFERRED_SOURCE == "deezer"
BACKUP_SOURCE == "qobuz"
\* 0.85, in hundredths
CONFIDENCE_THRESHOLD == 85

Sources == {"deezer", "qobuz"}

\* A mutant of SourceAt: the priority order reversed.
SourceAtReversed(k) == IF k = 1 THEN BACKUP_SOURCE ELSE PREFERRED_SOURCE

SourceAt(k) == IF k = 1 THEN PREFERRED_SOURCE ELSE BACKUP_SOURCE

\* ------------------------------------------------------------- text
\* Strings are sequences of characters, so that str.lower() is computed.
LowerChar(c) ==
    CASE c = "H" -> "h" [] c = "E" -> "e" [] c = "Y" -> "y"
      [] c = "S" -> "s" [] c = "B" -> "b" [] c = "T" -> "t"
      [] c = "L" -> "l" [] c = "M" -> "m" [] c = "C" -> "c"
      [] c = "R" -> "r" [] c = "O" -> "o"
      [] OTHER -> c

Lower(s) == [k \in DOMAIN s |-> LowerChar(s[k])]

HeyJude == <<"H", "e", "y">>
Yesterday == <<"Y", "e", "s">>
Beatles == <<"B", "t", "l">>
McCartney == <<"M", "c", "C">>
Remastered == <<" ", "(", "R", ")">>
Other == <<"O">>

Shout(s) ==
    CASE s = HeyJude -> <<"H", "E", "Y">>
      [] s = Yesterday -> <<"Y", "E", "S">>
      [] s = Beatles -> <<"B", "T", "L">>
      [] s = McCartney -> <<"M", "C", "C">>
      [] OTHER -> s

\* The catalogue's tracks: {'name': ..., 'artists': [...]}.
Catalogue(k) ==
    IF k % 2 = 1
    THEN [name |-> HeyJude, artists |-> <<Beatles>>]
    ELSE [name |-> Yesterday, artists |-> <<Beatles, McCartney>>]

Batch(n) == [k \in 1..n |-> Catalogue(k)]

\* dict.get(key, default)
Get(d, key, default) == IF key \in DOMAIN d THEN d[key] ELSE default

\* A raw search result of source s: Deezer names the artist under 'artist',
\* Qobuz under 'performer'.
Cand(s, title, artist, id, album) ==
    ((IF s = "deezer" THEN "artist" ELSE "performer") :> artist) @@
    [title |-> title, id |-> id, album |-> album]

\* The candidates a source may rank first for a query.
Candidates(s, q) ==
    { Cand(s, q.name, q.artists[1], "123", "456"),
      Cand(s, Shout(q.name), Shout(q.artists[1]), "123", "456"),
      Cand(s, q.name, q.artists[Len(q.artists)], "123", "456"),
      Cand(s, q.name \o Remastered, q.artists[1], "123", "456"),
      Cand(s, q.name, Other, "123", "456"),
      Cand(s, q.name, q.artists[1], None, "456"),
      Cand(s, q.name, q.artists[1], "123", None) }

\* What a search may return: nothing, one candidate, or a candidate and the
\* exact one ranked second.
SearchResults(s, q) ==
    {<<>>} \cup { <<c>> : c \in Candidates(s, q) }
           \cup { <<c, Cand(s, q.name, q.artists[1], "123", "456")>> :
                    c \in Candidates(s, q) }

\* ---------------------------------------------------------- matching
\* A mutant of ArtistField: the artist is read from 'artist' on every source.
ArtistFieldDeezerOnly(s) == "artist"

\* The key download_track reads the artist from: first_result_data.get('artist')
\* for Deezer, first_result_data.get('performer') for Qobuz.
ArtistField(s) == IF s = "deezer" THEN "artist" ELSE "performer"

IsPrefix(a, b) == Len(a) <= Len(b) /\ SubSeq(b, 1, Len(a)) = a

\* A mutant of TitleMatch: the result's title need only start with the query's.
TitleMatchPrefix(q, c) == IsPrefix(Lower(q.name), Lower(Get(c, "title", <<>>)))

\* result_title == spotify_title, both lower-cased
TitleMatch(q, c) == Lower(Get(c, "title", <<>>)) = Lower(q.name)

\* A mutant of ArtistMatch: only the query's first artist is compared.
ArtistMatchFirstOnly(s, q, c) ==
    Lower(Get(c, ArtistField(s), <<>>)) = Lower(q.artists[1])

\* result_artist in spotify_artists_lower
ArtistMatch(s, q, c) ==
    Lower(Get(c, ArtistField(s), <<>>)) \in { Lower(q.artists[k]) : k \in DOMAIN q.artists }

\* A mutant of HasIds: the track id alone is asked for.
HasIdsTrackOnly(c) == Get(c, "id", None) # None

\* if track_id and album_id
HasIds(c) == Get(c, "id", None) # None /\ Get(c, "album", None) # None

\* the guard of the "No search results found" branch
NoCandidates(r) == r = <<>>

\* A mutant of MatchVerdict: an empty result list counts as a match.
MatchVerdictOfEmpty(s, q, r) ==
    IF r = <<>> THEN "match"
    ELSE IF ~(TitleMatch(q, r[1]) /\ ArtistMatch(s, q, r[1])) THEN "nomatch"
    ELSE IF ~HasIds(r[1]) THEN "noid"
    ELSE "match"

\* How one source's search result is judged: only r[1] is looked at.
MatchVerdict(s, q, r) ==
    IF NoCandidates(r) THEN "empty"
    ELSE IF ~(TitleMatch(q, r[1]) /\ ArtistMatch(s, q, r[1])) THEN "nomatch"
    ELSE IF ~HasIds(r[1]) THEN "noid"
    ELSE "match"

\* ------------------------------------------------------------- files
PathOf(q, s) == [track |-> q.name, src |-> s]

OnDisk(d, name) == \E f \in d : f.track = name

\* ----------------------------------------------------- rip (version "rip")
Confidences == {0, 84, 85, 100}

NoRip == [status |-> "none", confidence |-> 0, files |-> <<>>]

\* rip(query, source, output_path, skip_existing=True): with skip_existing an
\* existing destination file is reported, not fetched again.
RipResults(q, s, d) ==
    (IF OnDisk(d, q.name)
     THEN {[status |-> "ALREADY_EXISTS", confidence |-> 100, files |-> <<>>]}
     ELSE { [status |-> "SUCCESS", confidence |-> c, files |-> f] :
              c \in Confidences, f \in {<<>>, <<PathOf(q, s)>>} })
    \cup {[status |-> "NOT_FOUND", confidence |-> 0, files |-> <<>>]}

\* A mutant of RipVerdict: a confidence equal to the threshold is rejected.
RipVerdictStrict(r) ==
    IF r.status = "SUCCESS" /\ r.confidence > CONFIDENCE_THRESHOLD
    THEN (IF r.files # <<>> THEN "Success" ELSE "nofiles")
    ELSE IF r.status = "ALREADY_EXISTS" THEN "AlreadyExists"
    ELSE "failed"

\* The caller's reading of a RipResult.
RipVerdict(r) ==
    IF r.status = "SUCCESS" /\ r.confidence >= CONFIDENCE_THRESHOLD
    THEN (IF r.files # <<>> THEN "Success" ELSE "nofiles")
    ELSE IF r.status = "ALREADY_EXISTS" THEN "AlreadyExists"
    ELSE "failed"

\* ------------------------------------------------------ the resolver
\* A mutant of TryBackup: the backup source is tried whatever the first gave.
TryBackupAlways(path) == TRUE

\* A mutant of TryBackup: the backup source is never tried.
TryBackupNever(path) == FALSE

\* if not downloaded_path: the backup source is tried
TryBackup(path) == path = NoPath

\* A mutant of LoginFailedNext: a failed login ends download_track.
LoginFailedReturns == "ret"

\* What follows a failed login: the error is logged and the attempt on this
\* source ends (its finally block runs).
LoginFailedNext == "close"

\* A mutant of RipOnError: the exception leaves download_track.
RipOnErrorRaises == "raise"

\* What follows an exception raised inside rip(): it is logged and the
\* resolver goes on.
RipOnError == "next"

\* The terminal outcome of download_track.
TrackOutcome(path, so) ==
    IF path # NoPath THEN "Success"
    ELSE IF \E s \in Sources : so[s] = "AlreadyExists" THEN "AlreadyExists"
    ELSE "Failed"

Call(s, op, res) == [src |-> s, op |-> op, res |-> res]

Raised(cs) == \E k \in DOMAIN cs : cs[k].res = "raises"

\* The record kept of a finished track.
Outcome(path, so, cs) ==
    [tag |-> TrackOutcome(path, so), path |-> path, raised |-> Raised(cs)]

\* -------------------------------------------------------------- main
\* A mutant of Collect: the result is appended whatever it is.
CollectAlways(paths, path) == Append(paths, path)

\* if downloaded_path: successfully_downloaded_paths.append(downloaded_path)
Collect(paths, path) == IF path # NoPath THEN Append(paths, path) ELSE paths

\* A mutant of SkipM3U: the playlist is written even with no file.
SkipM3UNever(files) == FALSE

\* generate_m3u: if not downloaded_files: return
SkipM3U(files) == files = <<>>

NoFile == <<[text |-> "<no file>", file |-> NoPath]>>
HeaderLine == [text |-> "#EXTM3U", file |-> NoPath]
PathLine(p) == [text |-> "", file |-> p]

M3ULines(files) == <<HeaderLine>> \o [k \in DOMAIN files |-> PathLine(files[k])]

\* --------------------------------------------------- before the loop
Credentials == {"ok", "missing", "invalid"}

\* A mutant of CredentialError: no credentials are ever found wanting.
CredentialErrorNever(c) == FALSE

\* The catalogue's credentials cannot be used: the client id or secret is
\* not set, or Spotify refuses them.
CredentialError(c) == c # "ok"

\* get_spotify_client: None when the id or the secret is missing or when
\* building the client raises; credentials Spotify refuses may only show
\* at the first request.
SpotifyClients(c) ==
    IF ~CredentialError(c) THEN {"sp"}
    ELSE IF c = "missing" THEN {None}
    ELSE {None, "sp"}

\* get_tracks_from_spotify: an error of the Spotify API is logged and the
\* list stays empty.
TracksFromSpotify(c, t) == IF CredentialError(c) THEN <<>> ELSE t

\* What may go wrong while main prepares the output directory and the
\* database.
Setups(v) == IF v = "client" THEN {"ok", "mkdir_fails", "db_fails"}
             ELSE {"ok", "mkdir_fails"}

\* The sys.exit(1) main takes before its loop, "none" when it takes none:
\* "rip" asks for the Spotify client first, "client" for the directory and
\* the database first.
Fatal(v, sp, setup) ==
    IF v = "rip"
    THEN (IF sp = None THEN "creds"
          ELSE IF setup = "mkdir_fails" THEN "mkdir" ELSE "none")
    ELSE (IF setup = "mkdir_fails" THEN "mkdir"
          ELSE IF setup = "db_fails" THEN "db"
          ELSE IF sp = None THEN "creds" ELSE "none")

\* A mutant of NoTracksExit: an empty track list ends the program with 1.
NoTracksExitFailure == "1"

\* sys.exit(0) when no track was found
NoTracksExit == "0"

\* the status of a process whose main returns
ReturnExit == "0"

\* core's finally block: a session that is there and not closed is closed.
CloseSession(ss) == IF ss = "open" THEN "closed" ELSE ss

\* A mutant of Picked: the last result is taken.
PickedLast(r) == r[Len(r)]

\* first_result_data = search_result_dict['data'][0]
Picked(r) == r[1]

\* A mutant of FetchOnError: the exception leaves the function.
FetchOnErrorPropagates == "propagates"

\* What becomes of an exception raised while the album and the track are
\* resolved and ripped: it is caught and logged.
FetchOnError == "caught"

\* A mutant of Counted: only successes are counted.
CountedSuccessOnly(ok, failed, path) ==
    IF path # NoPath THEN <<ok + 1, failed>> ELSE <<ok, failed>>

\* if result: successful_downloads += 1, else: failed_downloads += 1
Counted(ok, failed, path) ==
    IF path # NoPath THEN <<ok + 1, failed>> ELSE <<ok, failed + 1>>

\* A mutant of NextSource: the same source is tried again.
NextSourceSame(k) == k

\* The attempt on the backup source follows the attempt on the preferred one.
NextSource(k) == k + 1

\* A mutant of NextIndex: the loop skips a track.
NextIndexSkip(k) == k + 2

\* for i, track_info in enumerate(...): the next track of the list
NextIndex(k) == k + 1

Versions == {"rip", "client", "core"}

\* No playlist lookup is under way.
NoResults == [items |-> <<>>, next |-> FALSE, offset |-> 0]

CatalogueIdle ==
    /\ pItems = <<>>
    /\ pResults = NoResults
    /\ pOffset = 0
    /\ pTracks = <<>>
    /\ ppc = "idle"

\* The window is open and Download was never clicked.
GuiIdle ==
    /\ gThreads = <<>>
    /\ current_thread = 0
    /\ result_text = "empty"

\* The batch program at rest, for the behaviours of the playlist lookup and
\* of the window alone.
MainIdle ==
    /\ tracks = <<>>
    /\ qobuzCreds = TRUE
    /\ is_playlist = TRUE
    /\ run = "first"
    /\ pc = "start"
    /\ i = 1
    /\ src = 1
    /\ downloaded_path = NoPath
    /\ results = <<>>
    /\ srcOutcome = [s \in Sources |-> "none"]
    /\ calls = <<>>
    /\ successes = <<>>
    /\ successful_downloads = 0
    /\ failed_downloads = 0
    /\ outcomes = <<>>
    /\ succeededFirst = {}
    /\ loginFailed = {}
    /\ disk = {}
    /\ ripResult = [s \in Sources |-> NoRip]
    /\ playlist = NoFile
    /\ m3uWritten = FALSE
    /\ spotifyCreds = "ok"
    /\ exit_code = "running"
    /\ fatal = "none"
    /\ logins = [s \in Sources |-> 0]
    /\ session = "none"
    /\ pending = <<>>

Init ==
    /\ version \in Versions
    /\ \E n \in 0..MaxTracks : tracks = Batch(n)
    /\ qobuzCreds \in (IF version = "client" THEN BOOLEAN ELSE {TRUE})
    /\ is_playlist \in (IF version = "core" THEN BOOLEAN ELSE {FALSE})
    /\ version = "core" /\ ~is_playlist => Len(tracks) <= 1
    /\ run = "first"
    /\ pc = "start"
    /\ i = 1
    /\ src = 1
    /\ downloaded_path = NoPath
    /\ results = <<>>
    /\ srcOutcome = [s \in Sources |-> "none"]
    /\ calls = <<>>
    /\ successes = <<>>
    /\ successful_downloads = 0
    /\ failed_downloads = 0
    /\ outcomes = <<>>
    /\ succeededFirst = {}
    /\ loginFailed = {}
    /\ disk = {}
    /\ ripResult = [s \in Sources |-> NoRip]
    /\ playlist = NoFile
    /\ m3uWritten = FALSE
    /\ spotifyCreds \in Credentials
    /\ exit_code = "running"
    /\ fatal = "none"
    /\ logins = [s \in Sources |-> 0]
    /\ session = "none"
    /\ pending = <<>>
    /\ CatalogueIdle
    /\ GuiIdle

\* main before its loop: the Spotify client, the output directory and (in
\* "client") the database, each ending the program with 1 when it fails;
\* then the track list, which ends the program with 0 when it is empty.
Start ==
    /\ pc = "start"
    /\ version \in {"rip", "client"}
    /\ \E sp \in SpotifyClients(spotifyCreds), setup \in Setups(version) :
         /\ fatal' = Fatal(version, sp, setup)
         /\ IF Fatal(version, sp, setup) # "none"
            THEN pc' = "done" /\ exit_code' = "1"
            ELSE IF TracksFromSpotify(spotifyCreds, tracks) = <<>>
            THEN pc' = "done" /\ exit_code' = NoTracksExit
            ELSE pc' = "main" /\ exit_code' = exit_code
    /\ UNCHANGED <<version, tracks, qobuzCreds, is_playlist, run, i, src,
                   downloaded_path, results, srcOutcome, calls, successes,
                   successful_downloads, failed_downloads, outcomes,
                   succeededFirst, loginFailed, disk, ripResult, playlist,
                   m3uWritten, spotifyCreds, logins, session, pending>>
    /\ UNCHANGED <<catalogueVars, guiVars>>

\* main's loop enters download_track for tracks[i].
BeginTrack ==
    /\ pc = "main"
    /\ version \in {"rip", "client"}
    /\ i <= Len(tracks)
    /\ src' = 1
    /\ downloaded_path' = NoPath
    /\ results' = <<>>
    /\ srcOutcome' = [s \in Sources |-> "none"]
    /\ ripResult' = [s \in Sources |-> NoRip]
    /\ calls' = <<>>
    /\ pc' = IF version = "rip" THEN "rip" ELSE "login"
    /\ UNCHANGED <<version, tracks, qobuzCreds, is_playlist, run, i, successes,
                   successful_downloads, failed_downloads, outcomes,
                   succeededFirst, loginFailed, disk, playlist, m3uWritten,
                   spotifyCreds, exit_code, fatal, logins, session, pending>>
    /\ UNCHANGED <<catalogueVars, guiVars>>

\* version "rip": one attempt, rip() on the source at hand and the reading of
\* its result.
Rip ==
    /\ pc = "rip"
    /\ LET s == SourceAt(src)
           q == tracks[i]
           fallThrough ==
               /\ downloaded_path' = downloaded_path
               /\ IF src = 1 /\ TryBackup(downloaded_path)
                  THEN src' = NextSource(src) /\ pc' = "rip"
                  ELSE src' = src /\ pc' = "ret"
       IN \/ /\ calls' = Append(calls, Call(s, "rip", "raises"))
             /\ srcOutcome' = [srcOutcome EXCEPT ![s] = "failed"]
             /\ IF RipOnError = "next"
                THEN fallThrough
                ELSE pc' = "crashed" /\ UNCHANGED <<src, downloaded_path>>
             /\ UNCHANGED <<ripResult, disk>>
          \/ \E r \in RipResults(q, s, disk) :
                /\ calls' = Append(calls, Call(s, "rip", r.status))
                /\ ripResult' = [ripResult EXCEPT ![s] = r]
                /\ disk' = IF r.status = "SUCCESS" /\ r.files # <<>>
                           THEN disk \cup {r.files[1]} ELSE disk
                /\ srcOutcome' = [srcOutcome EXCEPT ![s] = RipVerdict(r)]
                /\ CASE RipVerdict(r) = "Success" ->
                          /\ downloaded_path' = r.files[1]
                          /\ pc' = "ret"
                          /\ src' = src
                     [] RipVerdict(r) = "AlreadyExists" ->
                          /\ downloaded_path' = downloaded_path
                          /\ pc' = "ret"
                          /\ src' = src
                     [] OTHER -> fallThrough
    /\ UNCHANGED <<version, tracks, qobuzCreds, is_playlist, run, i, results,
                   successes, successful_downloads, failed_downloads, outcomes,
                   succeededFirst, loginFailed, playlist, m3uWritten,
                   spotifyCreds, exit_code, fatal, logins, session, pending>>
    /\ UNCHANGED <<catalogueVars, guiVars>>

\* version "client": the client of the source at hand is created and logged
\* in; Qobuz only when its credentials are configured.
ClientLogin ==
    /\ pc = "login"
    /\ LET s == SourceAt(src)
       IN IF s = BACKUP_SOURCE /\ ~qobuzCreds
          THEN /\ calls' = Append(calls, Call(s, "creds", "missing"))
               /\ srcOutcome' = [srcOutcome EXCEPT ![s] = "skipped"]
               /\ pc' = "close"
               /\ UNCHANGED <<loginFailed, logins, session>>
          ELSE \E r \in {"ok", "refused", "raises"} :
               /\ calls' = Append(calls, Call(s, "login", r))
               /\ logins' = [logins EXCEPT ![s] = @ + 1]
               /\ session' = "open"
               /\ IF r = "ok"
                  THEN /\ pc' = "search"
                       /\ UNCHANGED <<srcOutcome, loginFailed>>
                  ELSE /\ pc' = LoginFailedNext
                       /\ srcOutcome' = [srcOutcome EXCEPT ![s] = "unusable"]
                       /\ loginFailed' = loginFailed \cup {s}
    /\ UNCHANGED <<version, tracks, qobuzCreds, is_playlist, run, i, src,
                   downloaded_path, results, successes, successful_downloads,
                   failed_downloads, outcomes, succeededFirst, disk, ripResult,
                   playlist, m3uWritten, spotifyCreds, exit_code, fatal,
                   pending>>
    /\ UNCHANGED <<catalogueVars, guiVars>>

\* client.search and the exact match on its first result.
ClientSearch ==
    /\ pc = "search"
    /\ LET s == SourceAt(src)
           q == tracks[i]
       IN \/ /\ calls' = Append(calls, Call(s, "search", "raises"))
             /\ srcOutcome' = [srcOutcome EXCEPT ![s] = "failed"]
             /\ results' = <<>>
             /\ pc' = "close"
             /\ UNCHANGED pending
          \/ \E r \in SearchResults(s, q) :
                /\ calls' = Append(calls,
                       Call(s, "search", IF r = <<>> THEN "empty" ELSE "some"))
                /\ results' = r
                /\ IF MatchVerdict(s, q, r) = "match"
                   THEN /\ pc' = "fetch"
                        /\ pending' = IF r = <<>> THEN <<>> ELSE <<Picked(r)>>
                        /\ UNCHANGED srcOutcome
                   ELSE /\ pc' = "close"
                        /\ srcOutcome' =
                             [srcOutcome EXCEPT ![s] = MatchVerdict(s, q, r)]
                        /\ UNCHANGED pending
    /\ UNCHANGED <<version, tracks, qobuzCreds, is_playlist, run, i, src,
                   downloaded_path, successes, successful_downloads,
                   failed_downloads, outcomes, succeededFirst, loginFailed,
                   disk, ripResult, playlist, m3uWritten, spotifyCreds,
                   exit_code, fatal, logins, session>>
    /\ UNCHANGED <<catalogueVars, guiVars>>

\* What PendingAlbum.resolve, PendingTrack.resolve and rip may do.
FetchEnv == {"album_raises", "album_none", "track_none", "rip_raises",
             "rip_none", "rip_missing", "rip_file"}

FetchClass(e) ==
    CASE e \in {"album_raises", "album_none", "rip_raises"} -> "raises"
      [] e = "track_none" -> "unresolved"
      [] e \in {"rip_none", "rip_missing"} -> "no_file"
      [] OTHER -> "file"

\* The album and the track are resolved and the track is ripped; only a
\* rip result that exists on disk sets downloaded_path.
ClientFetch ==
    /\ pc = "fetch"
    /\ LET s == SourceAt(src)
           q == tracks[i]
       IN \E e \in FetchEnv :
            /\ calls' = Append(calls, Call(s, "fetch", FetchClass(e)))
            /\ IF e = "rip_file"
               THEN /\ downloaded_path' = PathOf(q, s)
                    /\ disk' = disk \cup {PathOf(q, s)}
                    /\ srcOutcome' = [srcOutcome EXCEPT ![s] = "Success"]
               ELSE /\ srcOutcome' = [srcOutcome EXCEPT ![s] = "failed"]
                    /\ UNCHANGED <<downloaded_path, disk>>
            /\ pc' = IF FetchClass(e) = "raises" /\ FetchOnError # "caught"
                     THEN "crashed" ELSE "close"
    /\ UNCHANGED <<version, tracks, qobuzCreds, is_playlist, run, i, src,
                   results, successes, successful_downloads, failed_downloads,
                   outcomes, succeededFirst, loginFailed, ripResult, playlist,
                   m3uWritten,
                   spotifyCreds, exit_code, fatal, logins, session, pending>>
    /\ UNCHANGED <<catalogueVars, guiVars>>

\* The guard of the finally block: client and hasattr(client, 'close') and
\* not getattr(client, 'closed', True); hasClose tells whether the client
\* object carries both attributes, with closed false.
ClosesClient(ss, hasClose) == ss = "open" /\ hasClose

\* The finally block of the attempt; then the backup source, which starts
\* with client = None, or the return.
ClientClose ==
    /\ pc = "close"
    /\ results' = <<>>
    /\ pending' = <<>>
    /\ \E hasClose \in BOOLEAN :
         IF src = 1 /\ TryBackup(downloaded_path)
         THEN src' = NextSource(src) /\ pc' = "login" /\ session' = "none"
         ELSE /\ src' = src
              /\ pc' = "ret"
              /\ session' = IF ClosesClient(session, hasClose)
                            THEN "closed" ELSE session
    /\ UNCHANGED <<version, tracks, qobuzCreds, is_playlist, run, i,
                   downloaded_path, srcOutcome, calls, successes,
                   successful_downloads, failed_downloads, outcomes,
                   succeededFirst, loginFailed, disk, ripResult, playlist,
                   m3uWritten, spotifyCreds, exit_code, fatal, logins>>
    /\ UNCHANGED <<catalogueVars, guiVars>>

\* download_track has returned: main keeps the path of a fetched track.
Collected ==
    /\ pc = "ret"
    /\ successes' = Collect(successes, downloaded_path)
    /\ outcomes' = Append(outcomes, Outcome(downloaded_path, srcOutcome, calls))
    /\ i' = NextIndex(i)
    /\ pc' = "main"
    /\ session' = "none"
    /\ UNCHANGED <<version, tracks, qobuzCreds, is_playlist, run, src,
                   downloaded_path, results, srcOutcome, calls,
                   successful_downloads, failed_downloads, succeededFirst,
                   loginFailed, disk, ripResult, playlist, m3uWritten,
                   spotifyCreds, exit_code, fatal, logins, pending>>
    /\ UNCHANGED <<catalogueVars, guiVars>>

\* The loop is over: generate_m3u(successfully_downloaded_paths, output_dir).
GenerateM3U ==
    /\ pc = "main"
    /\ version \in {"rip", "client"}
    /\ i > Len(tracks)
    /\ IF SkipM3U(successes)
       THEN UNCHANGED <<playlist, m3uWritten>>
       ELSE playlist' = M3ULines(successes) /\ m3uWritten' = TRUE
    /\ pc' = "done"
    /\ exit_code' = ReturnExit
    /\ UNCHANGED <<version, tracks, qobuzCreds, is_playlist, run, i, src,
                   downloaded_path, results, srcOutcome, calls, successes,
                   successful_downloads, failed_downloads, outcomes,
                   succeededFirst, loginFailed, disk, ripResult,
                   spotifyCreds, fatal, logins, session, pending>>
    /\ UNCHANGED <<catalogueVars, guiVars>>

\* ------------------------------------------------- version "core"
\* The files os.listdir(download_folder) yields, sorted by name.
Rank(p) == IF p.track = HeyJude THEN 1 ELSE 2

RECURSIVE SortedFiles(_)
SortedFiles(d) ==
    IF d = {} THEN <<>>
    ELSE LET f == CHOOSE x \in d : \A y \in d : Rank(x) <= Rank(y)
         IN <<f>> \o SortedFiles(d \ {f})

\* if is_playlist and successful_downloads > 0 and playlist_name
WritesPlaylist(isPl, n) == isPl /\ n > 0

\* process_spotify_link: get_spotify_tracks raises without usable
\* credentials, and the error is printed; no tracks ends the run; else
\* download_multiple_tracks. main returns in each case.
CoreStart ==
    /\ pc = "start"
    /\ version = "core"
    /\ IF CredentialError(spotifyCreds)
       THEN pc' = "done" /\ fatal' = "creds" /\ exit_code' = ReturnExit
       ELSE IF tracks = <<>>
       THEN pc' = "done" /\ fatal' = fatal /\ exit_code' = ReturnExit
       ELSE pc' = "core_login" /\ fatal' = fatal /\ exit_code' = exit_code
    /\ UNCHANGED <<version, tracks, qobuzCreds, is_playlist, run, i, src,
                   downloaded_path, results, srcOutcome, calls, successes,
                   successful_downloads, failed_downloads, outcomes,
                   succeededFirst, loginFailed, disk, ripResult, playlist,
                   m3uWritten, spotifyCreds, logins, session, pending>>
    /\ UNCHANGED <<catalogueVars, guiVars>>

\* The one client of the batch logs in; a failed login ends the batch.
CoreLogin ==
    /\ pc = "core_login"
    /\ \E r \in {"ok", "refused", "raises"} :
         /\ calls' = Append(calls, Call("deezer", "login", r))
         /\ logins' = [logins EXCEPT !["deezer"] = @ + 1]
         /\ session' \in (IF r = "raises" THEN {"none", "open"} ELSE {"open"})
         /\ IF r = "ok"
            THEN pc' = "core_loop" /\ UNCHANGED loginFailed
            ELSE pc' = "core_finally" /\ loginFailed' = loginFailed \cup {"deezer"}
    /\ UNCHANGED <<version, tracks, qobuzCreds, is_playlist, run, i, src,
                   downloaded_path, results, srcOutcome, successes,
                   successful_downloads, failed_downloads, outcomes,
                   succeededFirst, disk, ripResult, playlist, m3uWritten,
                   spotifyCreds, exit_code, fatal, pending>>
    /\ UNCHANGED <<catalogueVars, guiVars>>

\* The loop enters download_track_with_client for tracks[i].
CoreBegin ==
    /\ pc = "core_loop"
    /\ i <= Len(tracks)
    /\ src' = 1
    /\ downloaded_path' = NoPath
    /\ results' = <<>>
    /\ srcOutcome' = [s \in Sources |-> "none"]
    /\ calls' = <<>>
    /\ pc' = "core_search"
    /\ UNCHANGED <<version, tracks, qobuzCreds, is_playlist, run, i, successes,
                   successful_downloads, failed_downloads, outcomes,
                   succeededFirst, loginFailed, disk, ripResult, playlist,
                   m3uWritten,
                   spotifyCreds, exit_code, fatal, logins, session, pending>>
    /\ UNCHANGED <<catalogueVars, guiVars>>

\* client.search; the first result is taken, and must carry a track id.
CoreSearch ==
    /\ pc = "core_search"
    /\ LET q == tracks[i]
       IN \/ /\ calls' = Append(calls, Call("deezer", "search", "raises"))
             /\ srcOutcome' = [srcOutcome EXCEPT !["deezer"] = "failed"]
             /\ results' = <<>>
             /\ pc' = "core_ret"
             /\ UNCHANGED pending
          \/ \E r \in SearchResults("deezer", q) :
                /\ calls' = Append(calls,
                       Call("deezer", "search", IF r = <<>> THEN "empty" ELSE "some"))
                /\ results' = r
                /\ IF NoCandidates(r)
                   THEN /\ pc' = "core_ret"
                        /\ srcOutcome' = [srcOutcome EXCEPT !["deezer"] = "empty"]
                   ELSE IF Get(r[1], "id", None) = None
                   THEN /\ pc' = "core_ret"
                        /\ srcOutcome' = [srcOutcome EXCEPT !["deezer"] = "noid"]
                   ELSE pc' = "core_prepare" /\ UNCHANGED srcOutcome
                /\ pending' = IF r # <<>> /\ Get(r[1], "id", None) # None
                              THEN <<Picked(r)>> ELSE pending
    /\ UNCHANGED <<version, tracks, qobuzCreds, is_playlist, run, i, src,
                   downloaded_path, successes, successful_downloads,
                   failed_downloads, outcomes, succeededFirst, loginFailed,
                   disk, ripResult, playlist, m3uWritten, spotifyCreds,
                   exit_code, fatal, logins, session>>
    /\ UNCHANGED <<catalogueVars, guiVars>>

\* Album metadata and artwork; any error here ends the track with None.
CorePrepare ==
    /\ pc = "core_prepare"
    /\ \E e \in {"ok", "metadata_raises", "artwork_raises"} :
         LET bad == Get(results[1], "album", None) = None \/ e # "ok"
         IN /\ calls' = Append(calls,
                   Call("deezer", "prepare", IF bad THEN "raises" ELSE "ok"))
            /\ IF bad
               THEN /\ pc' = IF FetchOnError = "caught"
                             THEN "core_ret" ELSE "crashed"
                    /\ srcOutcome' = [srcOutcome EXCEPT !["deezer"] = "failed"]
               ELSE pc' = "core_fetch" /\ UNCHANGED srcOutcome
    /\ UNCHANGED <<version, tracks, qobuzCreds, is_playlist, run, i, src,
                   downloaded_path, results, successes, successful_downloads,
                   failed_downloads, outcomes, succeededFirst, loginFailed,
                   disk, ripResult, playlist, m3uWritten,
                   spotifyCreds, exit_code, fatal, logins, session, pending>>
    /\ UNCHANGED <<catalogueVars, guiVars>>

\* pending.resolve() and resolved.rip(): when neither raises the placeholder
\* "<title> by <artist>" is returned, whatever is on disk.
CoreFetch ==
    /\ pc = "core_fetch"
    /\ LET q == tracks[i]
       IN \E e \in {"track_none", "rip_raises", "rip_none", "rip_file"} :
            /\ calls' = Append(calls, Call("deezer", "fetch",
                   CASE e \in {"track_none", "rip_raises"} -> "raises"
                     [] e = "rip_none" -> "no_file"
                     [] OTHER -> "file"))
            /\ IF e \in {"rip_none", "rip_file"}
               THEN /\ downloaded_path' = PathOf(q, "deezer")
                    /\ srcOutcome' = [srcOutcome EXCEPT !["deezer"] = "Success"]
               ELSE /\ srcOutcome' = [srcOutcome EXCEPT !["deezer"] = "failed"]
                    /\ UNCHANGED downloaded_path
            /\ disk' = IF e = "rip_file" THEN disk \cup {PathOf(q, "deezer")} ELSE disk
            /\ pc' = IF e \in {"track_none", "rip_raises"} /\ FetchOnError # "caught"
                     THEN "crashed" ELSE "core_ret"
    /\ UNCHANGED <<version, tracks, qobuzCreds, is_playlist, run, i, src,
                   results, successes, successful_downloads, failed_downloads,
                   outcomes, succeededFirst, loginFailed, ripResult, playlist,
                   m3uWritten,
                   spotifyCreds, exit_code, fatal, logins, session, pending>>
    /\ UNCHANGED <<catalogueVars, guiVars>>

\* download_track_with_client has returned: the loop counts the result.
CoreCounted ==
    /\ pc = "core_ret"
    /\ successful_downloads' =
         Counted(successful_downloads, failed_downloads, downloaded_path)[1]
    /\ failed_downloads' =
         Counted(successful_downloads, failed_downloads, downloaded_path)[2]
    /\ outcomes' = Append(outcomes, Outcome(downloaded_path, srcOutcome, calls))
    /\ results' = <<>>
    /\ pending' = <<>>
    /\ i' = NextIndex(i)
    /\ pc' = "core_loop"
    /\ UNCHANGED <<version, tracks, qobuzCreds, is_playlist, run, src,
                   downloaded_path, srcOutcome, calls, successes, succeededFirst,
                   loginFailed, disk, ripResult, playlist, m3uWritten,
                   spotifyCreds, exit_code, fatal, logins, session>>
    /\ UNCHANGED <<catalogueVars, guiVars>>

\* After the loop: the summary, and for a playlist with a fetched track the
\* .m3u file listing every .mp3 of the download folder.
CoreSummary ==
    /\ pc = "core_loop"
    /\ i > Len(tracks)
    /\ IF WritesPlaylist(is_playlist, successful_downloads)
       THEN /\ playlist' = [k \in DOMAIN SortedFiles(disk) |->
                               PathLine(SortedFiles(disk)[k])]
            /\ m3uWritten' = TRUE
       ELSE UNCHANGED <<playlist, m3uWritten>>
    /\ pc' = "core_finally"
    /\ UNCHANGED <<version, tracks, qobuzCreds, is_playlist, run, i, src,
                   downloaded_path, results, srcOutcome, calls, successes,
                   successful_downloads, failed_downloads, outcomes,
                   succeededFirst, loginFailed, disk, ripResult,
                   spotifyCreds, exit_code, fatal, logins, session, pending>>
    /\ UNCHANGED <<catalogueVars, guiVars>>

\* The finally block of download_multiple_tracks.
CoreFinally ==
    /\ pc = "core_finally"
    /\ session' = CloseSession(session)
    /\ pc' = "done"
    /\ exit_code' = ReturnExit
    /\ UNCHANGED <<version, tracks, qobuzCreds, is_playlist, run, i, src,
                   downloaded_path, results, srcOutcome, calls, successes,
                   successful_downloads, failed_downloads, outcomes,
                   succeededFirst, loginFailed, disk, ripResult, playlist,
                   m3uWritten, spotifyCreds, fatal, logins, pending>>
    /\ UNCHANGED <<catalogueVars, guiVars>>

\* The same batch is run again against the directory the first run left.
Rerun ==
    /\ pc = "done"
    /\ run = "first"
    /\ run' = "second"
    /\ succeededFirst' = { k \in DOMAIN outcomes : outcomes[k].tag = "Success" }
    /\ pc' = "start"
    /\ i' = 1
    /\ src' = 1
    /\ downloaded_path' = NoPath
    /\ srcOutcome' = [s \in Sources |-> "none"]
    /\ ripResult' = [s \in Sources |-> NoRip]
    /\ calls' = <<>>
    /\ successes' = <<>>
    /\ successful_downloads' = 0
    /\ failed_downloads' = 0
    /\ outcomes' = <<>>
    /\ loginFailed' = {}
    /\ m3uWritten' = FALSE
    /\ exit_code' = "running"
    /\ fatal' = "none"
    /\ logins' = [s \in Sources |-> 0]
    /\ session' = "none"
    /\ pending' = <<>>
    /\ UNCHANGED <<version, tracks, qobuzCreds, is_playlist, results, disk,
                   playlist, spotifyCreds>>
    /\ UNCHANGED <<catalogueVars, guiVars>>

Next ==
    \/ Start
    \/ BeginTrack
    \/ Rip
    \/ ClientLogin
    \/ ClientSearch
    \/ ClientFetch
    \/ ClientClose
    \/ Collected
    \/ GenerateM3U
    \/ CoreStart
    \/ CoreLogin
    \/ CoreBegin
    \/ CoreSearch
    \/ CorePrepare
    \/ CoreFetch
    \/ CoreCounted
    \/ CoreSummary
    \/ CoreFinally
    \/ Rerun

Spec == Init /\ [][Next]_vars

\* ------------------------------------------------ the playlist lookup
\* Playlists of at most MaxItems items, served PageSize items to a page
\* (limit = 100 in the program).
MaxItems == 5
PageSize == 2

Unknown == <<"U">>

\* An item of a playlist: its 'track' is null (track = FALSE), or a track
\* with a name and a list of artists.
PlaylistItem(hasTrack, name, artists) ==
    [track |-> hasTrack, name |-> name, artists |-> artists]

ItemKinds ==
    { PlaylistItem(TRUE, HeyJude, <<Beatles>>),
      PlaylistItem(TRUE, Yesterday, <<Beatles, McCartney>>),
      PlaylistItem(TRUE, Other, <<>>),
      PlaylistItem(FALSE, <<>>, <<>>) }

RECURSIVE Playlists(_)
Playlists(n) ==
    IF n = 0 THEN {<<>>}
    ELSE LET shorter == Playlists(n - 1)
         IN shorter \cup { Append(p, it) : p \in { q \in shorter : Len(q) = n - 1 },
                                           it \in ItemKinds }

Min(a, b) == IF a < b THEN a ELSE b

\* sp.playlist_items(url, limit=limit, offset=offset): the page of the
\* playlist that starts at offset, and whether another page follows.
PlaylistItemsAt(items, offset, limit) ==
    [items |-> SubSeq(items, offset + 1, Min(offset + limit, Len(items))),
     next |-> offset + limit < Len(items),
     offset |-> offset]

\* sp.next(results): the page that follows results.
SpNext(items, res, limit) == PlaylistItemsAt(items, res.offset + limit, limit)

\* client: track and track.get('name') and track.get('artists');
\* core: 'track' in item and item['track'].
HasTrackData(v, item) ==
    IF v = "client"
    THEN item.track /\ item.name # <<>> /\ item.artists # <<>>
    ELSE item.track

\* The dictionary appended for an item: name and all artists in "client",
\* the first artist (or "Unknown Artist") and the title in "core".
TrackInfo(v, item) ==
    IF v = "client"
    THEN [name |-> item.name, artists |-> item.artists]
    ELSE [artist |-> IF item.artists # <<>> THEN item.artists[1] ELSE Unknown,
          title |-> item.name]

\* for item in items: the items with track data are appended in order.
RECURSIVE AppendItems(_, _, _)
AppendItems(v, acc, its) ==
    IF its = <<>> THEN acc
    ELSE AppendItems(v,
                     IF HasTrackData(v, Head(its))
                     THEN Append(acc, TrackInfo(v, Head(its))) ELSE acc,
                     Tail(its))

\* A mutant of MorePages: the first page is taken for the whole playlist.
MorePagesNever(res) == FALSE

\* results['next']
MorePages(res) == res.next

\* A playlist lookup starts, in "client" or in "core".
CatalogueInit ==
    /\ version \in {"client", "core"}
    /\ MainIdle
    /\ GuiIdle
    /\ pItems \in Playlists(MaxItems)
    /\ pResults = NoResults
    /\ pOffset = 0
    /\ pTracks = <<>>
    /\ ppc = "first"

\* One request for a page: the first page by sp.playlist_items, the later
\* ones by sp.playlist_items at the next offset ("client") or by sp.next
\* ("core"). A request may raise: "client" catches the exception and returns
\* the list built so far, "core" lets it propagate.
PageRequest ==
    /\ ppc \in {"first", "more"}
    /\ \/ /\ pResults' =
               IF version = "client"
               THEN PlaylistItemsAt(pItems, pOffset, PageSize)
               ELSE IF ppc = "first"
               THEN PlaylistItemsAt(pItems, 0, PageSize)
               ELSE SpNext(pItems, pResults, PageSize)
          /\ ppc' = "page"
          /\ UNCHANGED pTracks
       \/ /\ ppc' = IF version = "client" THEN "returned_partial" ELSE "raised"
          /\ UNCHANGED <<pResults, pTracks>>
    /\ UNCHANGED <<pItems, pOffset, mainVars, guiVars>>

\* The page received is read: its items are appended, and the loop goes on
\* when the page reports a next page; "client" also stops at an empty page.
PageRead ==
    /\ ppc = "page"
    /\ IF version = "client" /\ pResults.items = <<>>
       THEN /\ ppc' = "returned"
            /\ UNCHANGED <<pTracks, pOffset>>
       ELSE /\ pTracks' = AppendItems(version, pTracks, pResults.items)
            /\ IF MorePages(pResults)
               THEN /\ ppc' = "more"
                    /\ pOffset' = IF version = "client"
                                  THEN pOffset + PageSize ELSE pOffset
               ELSE /\ ppc' = "returned"
                    /\ UNCHANGED pOffset
    /\ UNCHANGED <<pItems, pResults, mainVars, guiVars>>

CatalogueNext == PageRequest \/ PageRead

SpecCatalogue ==
    CatalogueInit /\ [][CatalogueNext]_vars /\ WF_vars(CatalogueNext)

\* ------------------------------------------------------------ the window
\* Download is clicked at most MaxClicks times.
MaxClicks == 3

\* What one run of run_download issues, in order.
RunOps == <<"login", "search", "fetch">>

\* DownloadThread(query, verbose) after start(): run() has not begun, loop
\* and task are still None.
NewThread == [state |-> "starting", ops |-> 0, cancel |-> FALSE]

\* QThread.isRunning(): started and run() not yet returned.
IsRunning(th) == th.state \in {"starting", "running"}

\* DownloadThread.terminate(): with a loop and a task that is not done,
\* task.cancel and loop.stop are handed to the thread's loop by
\* call_soon_threadsafe; otherwise nothing is done. It does not wait.
Terminate(th) ==
    IF th.state = "running" THEN [th EXCEPT !.cancel = TRUE] ELSE th

\* The window is open, nothing was downloaded yet.
GuiInit ==
    /\ version = "core"
    /\ MainIdle
    /\ CatalogueIdle
    /\ GuiIdle

\* download(): the click handler. An empty query shows a warning and
\* returns; otherwise a running current_thread is told to terminate and a
\* new DownloadThread is created and started at once.
GuiDownload ==
    /\ \E query \in {"empty", "link"} :
         IF query = "empty"
         THEN UNCHANGED guiVars
         ELSE /\ Len(gThreads) < MaxClicks
              /\ result_text' = "Downloading..."
              /\ gThreads' =
                   Append(IF current_thread # 0 /\ IsRunning(gThreads[current_thread])
                          THEN [gThreads EXCEPT ![current_thread] = Terminate(@)]
                          ELSE gThreads,
                          NewThread)
              /\ current_thread' = Len(gThreads) + 1
    /\ UNCHANGED <<mainVars, catalogueVars>>

\* DownloadThread.run() begins: the loop and the task are created.
GuiThreadRun ==
    /\ \E t \in DOMAIN gThreads :
         /\ gThreads[t].state = "starting"
         /\ gThreads' = [gThreads EXCEPT ![t].state = "running"]
    /\ UNCHANGED <<current_thread, result_text, mainVars, catalogueVars>>

\* The task of a running thread issues its next login, search or fetch; a
\* cancellation handed to the loop is not seen until the loop takes control.
GuiThreadOp ==
    /\ \E t \in DOMAIN gThreads :
         /\ gThreads[t].state = "running"
         /\ gThreads[t].ops < Len(RunOps)
         /\ gThreads' = [gThreads EXCEPT ![t].ops = @ + 1]
    /\ UNCHANGED <<current_thread, result_text, mainVars, catalogueVars>>

\* The loop of a thread told to terminate runs task.cancel and loop.stop:
\* run_until_complete ends with CancelledError (nothing is emitted) or with
\* the error of a loop stopped before the task was done (it is emitted).
GuiThreadStopped ==
    /\ \E t \in DOMAIN gThreads :
         /\ gThreads[t].state = "running"
         /\ gThreads[t].cancel
         /\ gThreads' = [gThreads EXCEPT ![t].state = "finished"]
    /\ result_text' \in {result_text, "Error"}
    /\ UNCHANGED <<current_thread, mainVars, catalogueVars>>

\* run_download returns (its result, or the text of an error it caught) and
\* the thread emits it to the result box.
GuiThreadDone ==
    /\ \E t \in DOMAIN gThreads :
         /\ gThreads[t].state = "running"
         /\ gThreads[t].ops >= 1
         /\ gThreads' = [gThreads EXCEPT ![t].state = "finished"]
    /\ result_text' = "result"
    /\ UNCHANGED <<current_thread, mainVars, catalogueVars>>

GuiNext ==
    \/ GuiDownload
    \/ GuiThreadRun
    \/ GuiThreadOp
    \/ GuiThreadStopped
    \/ GuiThreadDone

SpecGui == GuiInit /\ [][GuiNext]_vars

\* ------------------------------------------------------------ claims
HasCall(s, op) == \E k \in DOMAIN calls : calls[k].src = s /\ calls[k].op = op

HasCallRes(s, op, res) ==
    \E k \in DOMAIN calls :
        calls[k].src = s /\ calls[k].op = op /\ calls[k].res = res

Touched(s) == \E k \in DOMAIN calls : calls[k].src = s

Delivered == {"Success", "AlreadyExists"}

\* C1: once the preferred source (Deezer) has ended in Success or
\* AlreadyExists for a track, no rip, login, search or fetch is made on the
\* backup source (Qobuz) for that track, and at most one source ends in
\* Success or AlreadyExists per track.
C1_AtMostOneFetch ==
    /\ srcOutcome["deezer"] \in Delivered => ~Touched("qobuz")
    /\ ripResult["deezer"].status = "ALREADY_EXISTS" => ~Touched("qobuz")
    /\ Cardinality({ s \in Sources : srcOutcome[s] \in Delivered }) <= 1

C1_Witness ==
    /\ pc = "ret"
    /\ srcOutcome["deezer"] = "AlreadyExists"

\* The case of C2: Deezer's search returned nothing and Qobuz's top result
\* carries the query's title and artist, a track id and an album id; the
\* attempt on Qobuz is over.
C2_Case ==
    /\ version = "client"
    /\ pc = "close"
    /\ src = 2
    /\ HasCallRes("deezer", "search", "empty")
    /\ results # <<>>
    /\ results[1].title = tracks[i].name
    /\ "performer" \in DOMAIN results[1]
    /\ \E k \in DOMAIN tracks[i].artists : results[1].performer = tracks[i].artists[k]
    /\ results[1].id # None
    /\ results[1].album # None

\* C2 as stated: in that case the track's outcome is Success with Qobuz's path.
C2_Original ==
    C2_Case => /\ HasCall("qobuz", "fetch")
               /\ downloaded_path = PathOf(tracks[i], "qobuz")

\* C2 as amended: in that case a fetch is made on Qobuz, and download_track
\* returns Qobuz's path exactly when that fetch leaves a file on disk;
\* otherwise it returns None (Failed).
C2_FallbackFetches ==
    C2_Case => /\ HasCall("qobuz", "fetch")
               /\ ~HasCall("deezer", "fetch")
               /\ HasCallRes("qobuz", "fetch", "file")
                    => downloaded_path = PathOf(tracks[i], "qobuz")
               /\ ~HasCallRes("qobuz", "fetch", "file")
                    => downloaded_path = NoPath

C2_Witness ==
    /\ C2_Case
    /\ downloaded_path = PathOf(tracks[i], "qobuz")
    /\ downloaded_path \in disk

\* The case of C3: the attempt on Deezer is over and the title of its top
\* result, lower-cased, differs from the query's title, lower-cased.
C3_Case ==
    /\ version = "client"
    /\ pc = "close"
    /\ src = 1
    /\ results # <<>>
    /\ Lower(results[1].title) # Lower(tracks[i].name)

C3_NoFetch ==
    C3_Case => /\ srcOutcome["deezer"] = "nomatch"
               /\ ~HasCall("deezer", "fetch")
               /\ downloaded_path = NoPath

C3_FallsThrough == [][C3_Case => src' = 2 /\ pc' = "login"]_vars

\* C3: a top result of Deezer whose lower-cased title is not equal to the
\* query's lower-cased title is no match: nothing is fetched from Deezer and
\* the resolver goes on to Qobuz.
C3_TitleMismatch == []C3_NoFetch /\ C3_FallsThrough

C3_Witness ==
    /\ C3_Case
    /\ results[1].title = Yesterday \o Remastered

\* C4: when the search of every source returned an empty list, download_track
\* returns None (Failed), nothing was fetched, and each source was logged in
\* to and searched exactly once, Deezer before Qobuz.
C4_AllEmpty ==
    (/\ version = "client"
     /\ pc = "ret"
     /\ \A s \in Sources : HasCallRes(s, "search", "empty"))
    => /\ downloaded_path = NoPath
       /\ TrackOutcome(downloaded_path, srcOutcome) = "Failed"
       /\ \A s \in Sources : ~HasCall(s, "fetch")
       /\ [k \in DOMAIN calls |-> <<calls[k].src, calls[k].op>>] =
            << <<"deezer", "login">>, <<"deezer", "search">>,
               <<"qobuz", "login">>, <<"qobuz", "search">> >>

C4_Witness ==
    /\ version = "client"
    /\ pc = "ret"
    /\ \A s \in Sources : HasCallRes(s, "search", "empty")

DeezerLoginFailed ==
    HasCallRes("deezer", "login", "refused") \/ HasCallRes("deezer", "login", "raises")

\* C5: a failed Deezer login does not keep a track from Qobuz: when
\* download_track returns after it, the attempt on Qobuz was made, and with
\* Qobuz credentials configured Qobuz was logged in to.
C5_LoginFailureFallsBack ==
    (version = "client" /\ pc = "ret" /\ DeezerLoginFailed)
    => /\ Touched("qobuz")
       /\ qobuzCreds => HasCall("qobuz", "login")

C5_Witness ==
    /\ version = "client"
    /\ pc = "ret"
    /\ DeezerLoginFailed
    /\ HasCallRes("qobuz", "search", "some")
    /\ HasCallRes("qobuz", "fetch", "file")
    /\ downloaded_path = PathOf(tracks[i], "qobuz")

\* C6: once a source's login has failed in a run, no login, search or fetch
\* is made against that source for the rest of the run.
C6_UnusableForTheRun ==
    [][\A s \in loginFailed :
          ~(/\ Len(calls') = Len(calls) + 1
            /\ calls'[Len(calls')].src = s
            /\ calls'[Len(calls')].op \in {"login", "search", "fetch"})]_vars

\* C7 as stated: a track during whose resolution an exception was raised is
\* counted as a failure.
C7_Original ==
    \A k \in DOMAIN outcomes : outcomes[k].raised => outcomes[k].tag = "Failed"

\* C7 as amended: an exception raised while a track is resolved never leaves
\* the per-track function; the track is a failure unless another source
\* delivered it (Success) or reported it present (AlreadyExists); and a loop
\* that was entered goes on to every later track.
C7_Isolation ==
    /\ pc # "crashed"
    /\ pc \in {"ret", "core_ret"} /\ Raised(calls)
         /\ (\A s \in Sources : srcOutcome[s] \notin Delivered)
       => /\ downloaded_path = NoPath
          /\ TrackOutcome(downloaded_path, srcOutcome) = "Failed"
    /\ version = "core" /\ pc = "core_loop"
       => failed_downloads =
            Cardinality({ k \in DOMAIN outcomes : outcomes[k].tag = "Failed" })
    /\ pc = "done" /\ "deezer" \notin (IF version = "core" THEN loginFailed ELSE {})
         /\ spotifyCreds = "ok" /\ fatal = "none"
       => Len(outcomes) = Len(tracks)

C7_Witness ==
    /\ pc = "done"
    /\ Len(outcomes) >= 2
    /\ Len(outcomes) = Len(tracks)
    /\ outcomes[1].raised
    /\ outcomes[1].tag = "Failed"

SuccessPaths(os) ==
    LET ok == SelectSeq(os, LAMBDA o : o.tag = "Success")
    IN [k \in DOMAIN ok |-> ok[k].path]

\* C8: the list of successes is the paths of the tracks whose outcome was
\* Success, in input order; AlreadyExists and Failed tracks add no entry.
C8_SuccessesInOrder ==
    version \in {"rip", "client"} => successes = SuccessPaths(outcomes)

C8_Witness ==
    /\ pc = "done"
    /\ version = "rip"
    /\ \E k \in DOMAIN outcomes : outcomes[k].tag = "AlreadyExists"
    /\ \E k \in DOMAIN outcomes : outcomes[k].tag = "Success"
    /\ Len(successes) = 1

\* C9 (its core: not Success, no second download): in the second run of a
\* batch no track that the first run fetched is fetched, and reported as
\* Success, again.
C9_Idempotent ==
    run = "second" =>
        \A k \in DOMAIN outcomes : k \in succeededFirst => outcomes[k].tag # "Success"

\* C10: when no track of the run was fetched the playlist file is not
\* written: none is created and an existing one is left as it was.
C10_NoPlaylistWithoutSuccess ==
    (pc = "done" /\ \A k \in DOMAIN outcomes : outcomes[k].tag # "Success")
    => /\ ~m3uWritten
       /\ run = "first" => playlist = NoFile

C10_Witness ==
    /\ pc = "done"
    /\ run = "second"
    /\ outcomes # <<>>
    /\ \A k \in DOMAIN outcomes : outcomes[k].tag # "Success"
    /\ playlist # NoFile

\* C11: a playlist file written in this run holds the header line #EXTM3U
\* followed by exactly one line per track fetched in this run, in input
\* order, and no line for any other file of the output directory.
C11_HeaderThenSuccesses ==
    m3uWritten => playlist = <<HeaderLine>> \o
                     [k \in DOMAIN SuccessPaths(outcomes) |->
                         PathLine(SuccessPaths(outcomes)[k])]

C13_CredentialErrorIsFatal ==
    spotifyCreds # "ok" =>
        /\ pc \in {"start", "done"}
        /\ calls = <<>>
        /\ outcomes = <<>>
        /\ \A s \in Sources : logins[s] = 0
        /\ session = "none"
        /\ disk = {}
        /\ ~m3uWritten

C13_Witness ==
    /\ spotifyCreds = "missing"
    /\ tracks # <<>>
    /\ pc = "done"
    /\ fatal = "creds"

\* C14: within one run a source is logged in to at most once, and the
\* session of its client is not torn down while tracks of the batch remain.
C14_OneSessionPerBatch ==
    /\ \A s \in Sources : logins[s] <= 1
    /\ session = "closed" => pc = "done" \/ i >= Len(tracks)

\* C15: when the function that acquired a client returns (download_track in
\* "client", download_multiple_tracks in "core"), on whatever path, the
\* session of that client is not left open.
C15_SessionClosedOnReturn ==
    /\ version = "client" /\ pc = "ret" => session # "open"
    /\ version = "core" /\ pc = "done" => session # "open"

SrcName == IF src = 1 THEN "deezer" ELSE "qobuz"

ArtistKey == IF src = 1 THEN "artist" ELSE "performer"

\* The case of C16: the search of the source at hand returned results and
\* the first of them has the query's title and one of the query's artists,
\* letter case aside.
C16_Case ==
    /\ version = "client"
    /\ pc \in {"fetch", "close"}
    /\ results # <<>>
    /\ Lower(results[1].title) = Lower(tracks[i].name)
    /\ \E k \in DOMAIN tracks[i].artists :
          Lower(results[1][ArtistKey]) = Lower(tracks[i].artists[k])

C16_Fetched ==
    /\ pc = "fetch" \/ HasCall(SrcName, "fetch")
    /\ pending = <<results[1]>>

\* C16 as stated: in that case the first result is accepted and handed to
\* the fetch.
C16_Original == C16_Case => C16_Fetched

\* C16 as amended: in that case, when the first result carries a track id and
\* an album id, it is accepted and it is the result handed to the fetch,
\* whatever follows it in the list.
C16_ExactFirstIsFetched ==
    C16_Case /\ results[1].id # None /\ results[1].album # None => C16_Fetched

C16_Witness ==
    /\ C16_Case
    /\ pc = "close"
    /\ HasCall(SrcName, "fetch")
    /\ Len(results) = 2
    /\ results[1].title # tracks[i].name
    /\ pending = <<results[1]>>

\* C17: a search that returns an empty list is no match at once: on that
\* source nothing raises and nothing is prepared or fetched, and no path
\* comes from it.
C17_EmptyIsNoMatch ==
    \A s \in Sources :
        HasCallRes(s, "search", "empty") =>
            /\ srcOutcome[s] = "empty"
            /\ ~HasCall(s, "prepare")
            /\ ~HasCall(s, "fetch")
            /\ ~HasCallRes(s, "login", "raises")
            /\ ~HasCallRes(s, "search", "raises")
            /\ downloaded_path.src # s
            /\ calls[Len(calls)].src = s => calls[Len(calls)].op = "search"

C17_Witness ==
    /\ version = "client"
    /\ pc = "close"
    /\ src = 1
    /\ HasCallRes("deezer", "search", "empty")
    /\ srcOutcome["deezer"] = "empty"

\* The case of C18 in "client": the attempt on the source at hand is over and
\* its first result has the query's title and artist but lacks the track id
\* or the album id.
C18_Case ==
    /\ version = "client"
    /\ pc = "close"
    /\ results # <<>>
    /\ Lower(results[1].title) = Lower(tracks[i].name)
    /\ \E k \in DOMAIN tracks[i].artists :
          Lower(results[1][ArtistKey]) = Lower(tracks[i].artists[k])
    /\ results[1].id = None \/ results[1].album = None

\* The same in "core", which compares neither title nor artist.
C18_CoreCase ==
    /\ version = "core"
    /\ pc = "core_ret"
    /\ results # <<>>
    /\ results[1].id = None \/ results[1].album = None

C18_NoFetch ==
    /\ C18_Case => /\ srcOutcome[SrcName] = "noid"
                   /\ ~HasCall(SrcName, "fetch")
                   /\ downloaded_path.src # SrcName
    /\ C18_CoreCase => /\ ~HasCall("deezer", "fetch")
                       /\ downloaded_path = NoPath

C18_Advances == [][C18_Case /\ src = 1 => src' = 2 /\ pc' = "login"]_vars

\* C18: a top result that lacks the track id or the album id is no match even
\* when its title and artist match: nothing is fetched from that source, no
\* path comes from it, and from Deezer the resolver goes on to Qobuz.
C18_MissingIdIsNoMatch == []C18_NoFetch /\ C18_Advances

C18_Witness ==
    /\ C18_Case
    /\ src = 1
    /\ results[1].id # None
    /\ results[1].album = None

\* C19: an exception raised while the album metadata, the artwork or the
\* track is resolved or ripped never leaves the function: that source ends
\* as failed, no path comes from it, and the program goes on.
C19_ExceptionsAreCaught ==
    /\ pc # "crashed"
    /\ \A s \in Sources :
          HasCallRes(s, "fetch", "raises") \/ HasCallRes(s, "prepare", "raises")
          => /\ srcOutcome[s] = "failed"
             /\ downloaded_path.src # s

C19_Witness ==
    /\ version = "client"
    /\ pc = "ret"
    /\ HasCallRes("deezer", "fetch", "raises")
    /\ srcOutcome["qobuz"] = "Success"
    /\ downloaded_path = PathOf(tracks[i], "qobuz")

\* C20: a track is reported as Success only with a fetched file at the path
\* that was returned for it.
C20_SuccessHasFile ==
    /\ \A k \in DOMAIN outcomes :
          outcomes[k].tag = "Success" => outcomes[k].path \in disk
    /\ pc \in {"ret", "core_ret"} /\ downloaded_path # NoPath
         => downloaded_path \in disk

\* C21: in "core" every track processed has exactly one outcome, counted
\* once: successful + failed is the number of tracks processed so far, the
\* successful ones are those that returned a result, and once the loop is
\* over successful + failed is the number of input tracks.
C21_CountersAddUp ==
    version = "core" =>
        /\ successful_downloads + failed_downloads = Len(outcomes)
        /\ Len(outcomes) = i - 1
        /\ successful_downloads =
             Cardinality({ k \in DOMAIN outcomes : outcomes[k].tag = "Success" })
        /\ pc \in {"core_finally", "done"} /\ outcomes # <<>>
             => successful_downloads + failed_downloads = Len(tracks)

C21_Once ==
    [][pc' # "start" =>
         /\ Len(outcomes') >= Len(outcomes)
         /\ \A k \in DOMAIN outcomes : outcomes'[k] = outcomes[k]]_vars

C21_OneOutcomePerTrack == []C21_CountersAddUp /\ C21_Once

C21_Witness ==
    /\ version = "core"
    /\ pc = "core_finally"
    /\ Len(tracks) = 2
    /\ successful_downloads = 1
    /\ failed_downloads = 1

\* C22: in "rip", a source whose result has a confidence below
\* CONFIDENCE_THRESHOLD has fetched nothing: no file of that source for the
\* track at hand is on the disk.
C22_LowConfidenceNotFetched ==
    version = "rip" /\ pc \in {"rip", "ret"} =>
        \A s \in Sources :
            /\ ripResult[s].status = "SUCCESS"
            /\ ripResult[s].confidence < CONFIDENCE_THRESHOLD
            => PathOf(tracks[i], s) \notin disk

\* C23: in "rip", a SUCCESS result with files is accepted exactly when its
\* confidence is at least CONFIDENCE_THRESHOLD, on the preferred and on the
\* backup source alike: equal to the threshold is accepted, below is rejected.
C23_ThresholdInclusive ==
    version = "rip" /\ pc \in {"rip", "ret"} =>
        \A s \in Sources :
            ripResult[s].status = "SUCCESS" /\ ripResult[s].files # <<>> =>
                /\ ripResult[s].confidence >= CONFIDENCE_THRESHOLD
                     => srcOutcome[s] = "Success" /\ downloaded_path = ripResult[s].files[1]
                /\ ripResult[s].confidence < CONFIDENCE_THRESHOLD
                     => srcOutcome[s] = "failed" /\ downloaded_path # ripResult[s].files[1]

C23_Witness ==
    /\ version = "rip"
    /\ pc = "ret"
    /\ ripResult["deezer"].status = "NOT_FOUND"
    /\ ripResult["qobuz"].status = "SUCCESS"
    /\ ripResult["qobuz"].files # <<>>
    /\ ripResult["qobuz"].confidence = CONFIDENCE_THRESHOLD
    /\ srcOutcome["qobuz"] = "Success"
    /\ downloaded_path = PathOf(tracks[i], "qobuz")

\* The case of C24: the search of the source at hand returned a list whose
\* first result differs from the query in title or in artist.
C24_Case ==
    /\ \/ version = "client" /\ pc \in {"fetch", "close"}
       \/ version = "core" /\ pc \in {"core_prepare", "core_fetch", "core_ret"}
    /\ results # <<>>
    /\ \/ Lower(results[1].title) # Lower(tracks[i].name)
       \/ \A k \in DOMAIN tracks[i].artists :
             Lower(results[1][ArtistKey]) # Lower(tracks[i].artists[k])

\* C24: when the first result of a source's list does not match the query,
\* the source gives no match: nothing is prepared or fetched on it and no
\* path comes from it, even when an exact result follows in the list.
C24_FirstMismatchIsNoMatch ==
    C24_Case => /\ pc \notin {"fetch", "core_prepare", "core_fetch"}
                /\ ~HasCall(SrcName, "prepare")
                /\ ~HasCall(SrcName, "fetch")
                /\ downloaded_path = NoPath

\* The two comparisons of C25 on the first result of the source at hand,
\* written out: lower-cased titles equal, and the result's artist string,
\* lower-cased, equal to some artist of the query, lower-cased.
C25_TitleEq == Lower(results[1].title) = Lower(tracks[i].name)

C25_ArtistEq ==
    \E k \in DOMAIN tracks[i].artists :
        Lower(results[1][ArtistKey]) = Lower(tracks[i].artists[k])

\* C25: in "client" the first result of a source is a match exactly when its
\* title equals the query's and its artist equals some artist of the query,
\* letter case and the artist's position aside; a fetch is started only
\* when both hold.
C25_ArtistInQuerySet ==
    version = "client" /\ pc \in {"fetch", "close"} /\ results # <<>> =>
        /\ srcOutcome[SrcName] = "nomatch" <=> ~(C25_TitleEq /\ C25_ArtistEq)
        /\ pc = "fetch" \/ HasCall(SrcName, "fetch")
             => C25_TitleEq /\ C25_ArtistEq

C25_Witness ==
    /\ version = "client"
    /\ pc = "close"
    /\ results # <<>>
    /\ Len(tracks[i].artists) = 2
    /\ results[1][ArtistKey] = tracks[i].artists[2]
    /\ HasCall(SrcName, "fetch")

C26_Count(s, op) ==
    Cardinality({ k \in DOMAIN calls : calls[k].src = s /\ calls[k].op = op })

\* C26: for the track at hand each source is searched at most once and
\* fetched from at most once (in "rip": rip() is called at most once per
\* source), whatever the search, the match or the fetch gave.
C26_NoRetries ==
    \A s \in Sources :
        /\ C26_Count(s, "search") <= 1
        /\ C26_Count(s, "fetch") <= 1
        /\ C26_Count(s, "rip") <= 1

C26_Witness ==
    /\ version = "client"
    /\ pc = "ret"
    /\ HasCallRes("deezer", "fetch", "raises")
    /\ HasCallRes("qobuz", "search", "raises")
    /\ C26_Count("deezer", "search") = 1
    /\ C26_Count("deezer", "fetch") = 1
    /\ C26_Count("qobuz", "search") = 1

\* The fetch on the preferred source has failed: in "client" the resolve or
\* the rip raised or left no file, in "rip" rip() raised or reported success
\* without files.
C27_FirstFetchFailed ==
    \/ /\ version = "client"
       /\ \E res \in {"raises", "unresolved", "no_file"} :
             HasCallRes("deezer", "fetch", res)
    \/ /\ version = "rip"
       /\ \/ HasCallRes("deezer", "rip", "raises")
          \/ srcOutcome["deezer"] = "nofiles"

\* The step taken after a failed fetch on the preferred source goes to the
\* backup source for the same track.
C27_Advances ==
    [][/\ C27_FirstFetchFailed' /\ src = 1
       /\ \/ version = "client" /\ pc = "close"
          \/ version = "rip" /\ pc = "rip" /\ pc' # "crashed"
       => /\ src' = 2
          /\ i' = i
          /\ pc' = IF version = "client" THEN "login" ELSE "rip"
          /\ downloaded_path' = NoPath]_vars

\* download_track returns without a path after such a failure only once the
\* backup source has been attempted too.
C27_FailedAfterLast ==
    C27_FirstFetchFailed /\ pc = "ret" =>
        /\ src = 2
        /\ Touched("qobuz")
        /\ downloaded_path = NoPath => srcOutcome["qobuz"] # "Success"

\* C27: when the fetch on the preferred source fails, the resolver goes on
\* to the backup source for the same track, and the track ends without a
\* file only after the backup source has been attempted and has not
\* delivered either.
C27_FetchFailureAdvances == []C27_FailedAfterLast /\ C27_Advances

C27_Witness ==
    /\ version = "client"
    /\ pc = "ret"
    /\ HasCallRes("deezer", "fetch", "no_file")
    /\ HasCallRes("qobuz", "fetch", "file")
    /\ downloaded_path = PathOf(tracks[i], "qobuz")

\* C28: tracks are taken one at a time in the order of the list: while track
\* i is being searched or fetched, exactly the tracks before it have their
\* outcome, the calls in flight are those of track i alone, and the k-th
\* outcome is that of the k-th track.
C28_OneAtATimeInOrder ==
    /\ Len(outcomes) = i - 1
    /\ i <= Len(tracks) + 1
    /\ \A k \in DOMAIN outcomes :
          outcomes[k].path # NoPath => outcomes[k].path.track = tracks[k].name
    /\ downloaded_path # NoPath /\ pc \in {"ret", "core_ret", "close", "rip"}
          => downloaded_path.track = tracks[i].name

C28_Witness ==
    /\ pc \in {"search", "core_search"}
    /\ i = 2
    /\ Len(outcomes) = 1
    /\ outcomes[1].path # NoPath
    /\ outcomes[1].path.track = tracks[1].name
    /\ calls = <<>> \/ calls[Len(calls)].op = "login"

\* The tracks of a playlist in the playlist's order, written out for C30:
\* "client" keeps the items whose track has a name and artists, "core" the
\* items whose track is not null.
RECURSIVE C30_Flattened(_, _)
C30_Flattened(v, its) ==
    IF its = <<>> THEN <<>>
    ELSE LET it == Head(its)
             rest == C30_Flattened(v, Tail(its))
         IN IF v = "client"
            THEN (IF it.track /\ it.name # <<>> /\ it.artists # <<>>
                  THEN <<[name |-> it.name, artists |-> it.artists]>> \o rest
                  ELSE rest)
            ELSE (IF it.track
                  THEN <<[artist |-> IF it.artists = <<>> THEN Unknown
                                     ELSE it.artists[1],
                          title |-> it.name]>> \o rest
                  ELSE rest)

\* While the lookup runs the list holds the tracks of the pages read so far,
\* and when it returns without an error it holds the tracks of all pages, in
\* the playlist's order.
C30_AllPagesInOrder ==
    /\ ppc = "returned" => pTracks = C30_Flattened(version, pItems)
    /\ ppc \in {"more", "returned_partial", "raised"} =>
          \E n \in 0..Len(pItems) :
             pTracks = C30_Flattened(version, SubSeq(pItems, 1, n))

\* The loop ends at the page that reports no next page.
C30_StopsAtLastPage ==
    [][ppc = "page" /\ ~pResults.next => ppc' = "returned"]_vars

C30_Terminates == <>(ppc \in {"returned", "returned_partial", "raised"})

\* C30: a playlist lookup returns the tracks of all pages as one list, in
\* page order and then in the order within the page, without the items that
\* have no track data; its loop ends at the page that reports no next page,
\* so the lookup terminates.
C30_FlattenedInOrder ==
    []C30_AllPagesInOrder /\ C30_StopsAtLastPage /\ C30_Terminates

C30_Witness ==
    /\ ppc = "returned"
    /\ Len(pItems) = 5
    /\ pResults.offset = 4
    /\ Len(pTracks) = 3
    /\ ~pItems[2].track
    /\ pItems[4].artists = <<>>

\* C29: in the window at most one download run is in progress: a thread
\* that has issued its first login, search or fetch finds every thread
\* created before it finished.
C29_OneRunAtATime ==
    \A t \in DOMAIN gThreads :
        gThreads[t].ops >= 1 =>
            \A u \in 1..(t - 1) : gThreads[u].state = "finished"

====
